---- MODULE Spec2Model ----
(***************************************************************************)
(* CSP crossword generator (crossword/generate.py, class CrosswordCreator) *)
(* as a state machine: node consistency, AC-3 propagation and the          *)
(* backtracking search, each loop iteration or call being one step.        *)
(*                                                                         *)
(* Spec is the engine driven as main() drives it, by calls of solve;       *)
(* PropagationSpec is the engine driven by a caller of the propagation     *)
(* methods, enforce_node_consistency and ac3(arcs), on their own.          *)
(*                                                                         *)
(* Words are sequences of letters; code offsets are 0-based, so the code's *)
(* word[i] is word[i + 1] here.  The iteration order of Python sets (the   *)
(* crossword's variables, a domain's words) is fixed for a given engine:   *)
(* variables iterate in the order of the puzzle's list, words in the order *)
(* of WordPool.  The puzzle model (crossword.py: Variable, Crossword) is   *)
(* not part of the sources at hand and follows its description.            *)
(*                                                                         *)
(* ac3Result, seed, results and the frames' saved field record what        *)
(* happened (return values, the domains when a value was tried); the code  *)
(* does not read them.                                                     *)
(***************************************************************************)
EXTENDS Integers, Sequences, FiniteSets, TLC

\* ------------------------------------------------------------------ bounds
\* The word list is any non-empty set of at most MaxWords words of the pool.
MaxWords == 4
\* Longest explicit list of arcs handed to ac3(arcs).
MaxArcs == 1
\* Number of solve calls made on one engine.
MaxSolves == 2

\* ------------------------------------------------------- puzzle model
ACROSS == "across"
DOWN == "down"

Variable(i, j, direction, length) ==
    [i |-> i, j |-> j, direction |-> direction, length |-> length]

\* The cells a variable occupies, in word order.
Cells(v) ==
    [k \in 1..v.length |->
        << v.i + (IF v.direction = DOWN THEN k - 1 ELSE 0),
           v.j + (IF v.direction = ACROSS THEN k - 1 ELSE 0) >>]

\* "no overlap" entry of the overlap table
NoOverlap == << >>

\* Overlap table entry of two distinct variables: the 0-based offsets of the
\* shared cell in each of them, or NoOverlap.
Overlap(v1, v2) ==
    IF \E a \in 1..v1.length, b \in 1..v2.length : Cells(v1)[a] = Cells(v2)[b]
    THEN LET a == CHOOSE a \in 1..v1.length :
                      \E b \in 1..v2.length : Cells(v1)[a] = Cells(v2)[b]
             b == CHOOSE b \in 1..v2.length : Cells(v1)[a] = Cells(v2)[b]
         IN  << a - 1, b - 1 >>
    ELSE NoOverlap

\* The grids: one slot; two crossing slots; two parallel slots; a chain of
\* three; a ring of four; a 3-slot and a 2-slot crossing; a 3-slot and a
\* 2-slot apart.
Puzzles ==
    { << Variable(0, 0, ACROSS, 3) >>,
      << Variable(0, 0, ACROSS, 3), Variable(0, 2, DOWN, 3) >>,
      << Variable(0, 0, ACROSS, 3), Variable(2, 0, ACROSS, 3) >>,
      << Variable(0, 0, ACROSS, 3), Variable(0, 1, DOWN, 3),
         Variable(2, 0, ACROSS, 3) >>,
      << Variable(0, 0, ACROSS, 3), Variable(2, 0, ACROSS, 3),
         Variable(0, 0, DOWN, 3), Variable(0, 2, DOWN, 3) >>,
      << Variable(0, 0, ACROSS, 3), Variable(0, 0, DOWN, 2) >>,
      << Variable(0, 0, ACROSS, 3), Variable(2, 0, ACROSS, 2) >> }

\* crossword.overlaps of every grid, computed once: an entry for every
\* ordered pair of distinct variables
OverlapTable ==
    [p \in Puzzles |->
        [a \in { q \in (1..Len(p)) \X (1..Len(p)) : q[1] # q[2] } |->
            Overlap(p[a[1]], p[a[2]])]]

\* The words a word list is drawn from.
WordPool ==
    << << "a", "a", "b" >>, << "a", "a", "c" >>, << "a", "b" >>,
       << "a", "b", "a" >>, << "b", "a", "c" >> >>

WordIndex(w) == CHOOSE k \in 1..Len(WordPool) : WordPool[k] = w

VARIABLES
    puzzle,      \* crossword.variables, as a list (fixed iteration order)
    words,       \* crossword.words
    domains,     \* self.domains
    pc,          \* position of the single thread of control
    caller,      \* who runs the current operation: "solve" or "direct"
    calls,       \* number of solve calls made on the engine so far
    queue,       \* ac3's worklist
    seed,        \* how the running / last ac3 was seeded: "all" or "given"
    ac3Result,   \* return value of the last ac3: "none", "True", "False"
    assignment,  \* the dict passed along backtrack
    stack,       \* backtrack's call frames (innermost last)
    results,     \* values returned by the solve calls so far
    returned     \* value returned by the last direct call of a checker
                 \* or ordering method, << >> before any

vars == << puzzle, words, domains, pc, caller, calls, queue, seed, ac3Result,
           assignment, stack, results, returned >>

\* crossword.variables, identified by their position in the puzzle's list
Variables == 1..Len(puzzle)

length(v) == puzzle[v].length

overlaps(x, y) == OverlapTable[puzzle][<< x, y >>]

neighbors(var) ==
    { v \in Variables : v # var /\ overlaps(v, var) # NoOverlap }

\* A finite set of naturals as the ascending sequence of its elements.
RECURSIVE SetToSeq(_)
SetToSeq(S) ==
    IF S = {} THEN << >>
    ELSE LET m == CHOOSE m \in S : \A o \in S : m <= o
         IN  << m >> \o SetToSeq(S \ {m})

\* ----------------------------------------------------- node consistency
\* (variant: the length test is "<", so too long words stay)
enforce_min_length(doms) ==
    [var \in DOMAIN doms |-> { word \in doms[var] : Len(word) >= length(var) }]

enforce_node_consistency(doms) ==
    [var \in DOMAIN doms |-> { word \in doms[var] : Len(word) = length(var) }]

NodeConsistent(doms) ==
    \A var \in DOMAIN doms : \A word \in doms[var] : Len(word) = length(var)

\* ------------------------------------------------------- arc consistency
\* (variant: the two offsets are taken the wrong way round)
consistent_found_swapped(doms, x, y, word_x) ==
    LET i == overlaps(x, y)[1]
        j == overlaps(x, y)[2]
    IN  \E word_y \in doms[y] : word_x[j + 1] = word_y[i + 1]

\* (variant: a word is only supported by a different word)
consistent_found_other_word(doms, x, y, word_x) ==
    LET i == overlaps(x, y)[1]
        j == overlaps(x, y)[2]
    IN  \E word_y \in doms[y] \ {word_x} : word_x[i + 1] = word_y[j + 1]

\* word_x of x's domain has some word_y in y's domain agreeing at (i, j)
consistent_found(doms, x, y, word_x) ==
    LET i == overlaps(x, y)[1]
        j == overlaps(x, y)[2]
    IN  \E word_y \in doms[y] : word_x[i + 1] = word_y[j + 1]

words_to_remove(doms, x, y) ==
    IF overlaps(x, y) = NoOverlap THEN {}
    ELSE { word_x \in doms[x] : ~consistent_found(doms, x, y, word_x) }

\* the domains after revise(x, y)
revise(doms, x, y) ==
    [doms EXCEPT ![x] = doms[x] \ words_to_remove(doms, x, y)]

\* the value revise(x, y) returns
revised(doms, x, y) == words_to_remove(doms, x, y) # {}

\* the initial worklist of ac3(arcs=None)
AllArcs ==
    LET n == Len(puzzle)
        all == [k \in 1..(n * n) |-> << ((k - 1) \div n) + 1, ((k - 1) % n) + 1 >>]
        is_arc(a) == a[1] # a[2] /\ overlaps(a[1], a[2]) # NoOverlap
    IN  SelectSeq(all, is_arc)

\* (variant: nothing is enqueued again after a revision)
NoNewArcs(x, y, rev) == << >>

\* (variant: the arcs are enqueued the wrong way round, (x, k) for (k, x))
ReversedNewArcs(x, y, rev) ==
    IF rev
    THEN LET ks == SetToSeq(neighbors(x) \ {y})
         IN  [n \in 1..Len(ks) |-> << x, ks[n] >>]
    ELSE << >>

\* (variant: an arc whose revision changed nothing is put back)
RequeuedArcs(x, y, rev) ==
    IF rev
    THEN LET ks == SetToSeq(neighbors(x) \ {y})
         IN  [n \in 1..Len(ks) |-> << ks[n], x >>]
    ELSE << << x, y >> >>

\* (variant: the arc from y is appended as well)
NewArcsWithY(x, y, rev) ==
    IF rev
    THEN LET ks == SetToSeq(neighbors(x))
         IN  [n \in 1..Len(ks) |-> << ks[n], x >>]
    ELSE << >>

\* the arcs ac3 appends after revise(x, y) returned rev
NewArcs(x, y, rev) ==
    IF rev
    THEN LET ks == SetToSeq(neighbors(x) \ {y})
         IN  [n \in 1..Len(ks) |-> << ks[n], x >>]
    ELSE << >>

\* --------------------------------------------------------------- search
NoAssignment == << >>

assignment_complete(asg) ==
    Cardinality(DOMAIN asg) = Cardinality(Variables)

\* (variant: the all-distinct test is missing)
consistent_with_reuse(asg) ==
    /\ \A var \in DOMAIN asg : Len(asg[var]) = length(var)
    /\ \A var1 \in DOMAIN asg, var2 \in DOMAIN asg :
          (var1 # var2 /\ overlaps(var1, var2) # NoOverlap)
             => asg[var1][overlaps(var1, var2)[1] + 1]
                  = asg[var2][overlaps(var1, var2)[2] + 1]

\* (variant: a word longer than its variable passes the length check)
consistent_min_length(asg) ==
    /\ Cardinality({ asg[v] : v \in DOMAIN asg }) = Cardinality(DOMAIN asg)
    /\ \A var \in DOMAIN asg : Len(asg[var]) >= length(var)
    /\ \A var1 \in DOMAIN asg, var2 \in DOMAIN asg :
          (var1 # var2 /\ overlaps(var1, var2) # NoOverlap)
             => asg[var1][overlaps(var1, var2)[1] + 1]
                  = asg[var2][overlaps(var1, var2)[2] + 1]

consistent(asg) ==
    /\ Cardinality({ asg[v] : v \in DOMAIN asg }) = Cardinality(DOMAIN asg)
    /\ \A var \in DOMAIN asg : Len(asg[var]) = length(var)
    /\ \A var1 \in DOMAIN asg, var2 \in DOMAIN asg :
          (var1 # var2 /\ overlaps(var1, var2) # NoOverlap)
             => asg[var1][overlaps(var1, var2)[1] + 1]
                  = asg[var2][overlaps(var1, var2)[2] + 1]

\* (variant: the neighbors already in the assignment are counted as well)
count_all_neighbors(doms, var, asg, word) ==
    LET ruled_out ==
            { p \in UNION { { << neighbor, neighbor_word >> :
                                neighbor_word \in doms[neighbor] } :
                            neighbor \in neighbors(var) } :
                word[overlaps(var, p[1])[1] + 1]
                    # p[2][overlaps(var, p[1])[2] + 1] }
    IN  Cardinality(ruled_out)

\* number of (neighbor, neighbor word) pairs that word rules out
count_eliminated_values(doms, var, asg, word) ==
    LET ruled_out ==
            { p \in UNION { { << neighbor, neighbor_word >> :
                                neighbor_word \in doms[neighbor] } :
                            neighbor \in neighbors(var) \ DOMAIN asg } :
                word[overlaps(var, p[1])[1] + 1]
                    # p[2][overlaps(var, p[1])[2] + 1] }
    IN  Cardinality(ruled_out)

\* sorted(S, key): stable, so equal keys stay in iteration (pool) order
RECURSIVE SortedByCount(_, _, _, _)
SortedByCount(S, doms, var, asg) ==
    IF S = {} THEN << >>
    ELSE LET key(w) == count_eliminated_values(doms, var, asg, w)
             first == CHOOSE w \in S : \A o \in S :
                         \/ key(w) < key(o)
                         \/ key(w) = key(o) /\ WordIndex(w) <= WordIndex(o)
         IN  << first >> \o SortedByCount(S \ {first}, doms, var, asg)

\* (variant: the last value of the order is dropped)
order_domain_values_short(doms, var, asg) ==
    LET all == SortedByCount(doms[var], doms, var, asg)
    IN  SubSeq(all, 1, Len(all) - 1)

order_domain_values(doms, var, asg) ==
    SortedByCount(doms[var], doms, var, asg)

\* (variant: max instead of min, the most remaining values first)
select_most_remaining(doms, asg) ==
    LET unassigned_vars == Variables \ DOMAIN asg
    IN  CHOOSE var \in unassigned_vars :
            \A o \in unassigned_vars :
                /\ Cardinality(doms[o]) <= Cardinality(doms[var])
                /\ o < var => Cardinality(doms[o]) < Cardinality(doms[var])

\* (variant: ties are broken towards the lowest degree)
select_lowest_degree(doms, asg) ==
    LET unassigned_vars == Variables \ DOMAIN asg
        remaining_values(v) == Cardinality(doms[v])
        degree(v) == Cardinality(neighbors(v))
        less(a, b) == \/ remaining_values(a) < remaining_values(b)
                      \/ /\ remaining_values(a) = remaining_values(b)
                         /\ degree(a) < degree(b)
    IN  CHOOSE var \in unassigned_vars :
            \A o \in unassigned_vars :
                ~less(o, var) /\ (o < var => less(var, o))

\* min(unassigned_vars, key=sort_key): the first minimal one in list order
select_unassigned_variable(doms, asg) ==
    LET unassigned_vars == Variables \ DOMAIN asg
        remaining_values(v) == Cardinality(doms[v])
        degree(v) == Cardinality(neighbors(v))
        less(a, b) == \/ remaining_values(a) < remaining_values(b)
                      \/ /\ remaining_values(a) = remaining_values(b)
                         /\ degree(a) > degree(b)
    IN  CHOOSE var \in unassigned_vars :
            \A o \in unassigned_vars :
                ~less(o, var) /\ (o < var => less(var, o))

\* ------------------------------------------------------------ the engine
\* CrosswordCreator.__init__: every domain is a copy of the word list.
Init ==
    /\ puzzle \in Puzzles
    /\ words \in { { WordPool[k] : k \in ks } :
                      ks \in { S \in SUBSET (1..Len(WordPool)) :
                                 S # {} /\ Cardinality(S) <= MaxWords } }
    /\ domains = [var \in Variables |-> words]
    /\ pc = "idle"
    /\ caller = "direct"
    /\ calls = 0
    /\ queue = << >>
    /\ seed = "all"
    /\ ac3Result = "none"
    /\ assignment = NoAssignment
    /\ stack = << >>
    /\ results = << >>
    /\ returned = << >>

\* the lists of arcs a caller may hand to ac3: pairs of distinct variables
RECURSIVE ArcLists(_)
ArcLists(n) ==
    IF n = 0 THEN { << >> }
    ELSE LET shorter == ArcLists(n - 1)
         IN  shorter \cup
             { Append(l, a) :
                 l \in { s \in shorter : Len(s) = n - 1 },
                 a \in { p \in Variables \X Variables : p[1] # p[2] } }

\* creator.solve() is called
SolveCall ==
    /\ pc = "idle" /\ calls < MaxSolves
    /\ calls' = calls + 1
    /\ caller' = "solve"
    /\ ac3Result' = "none"
    /\ pc' = "nc"
    /\ UNCHANGED << puzzle, words, domains, queue, seed, assignment, stack,
                    results, returned >>

\* creator.enforce_node_consistency() is called on its own
NodeConsistencyCall ==
    /\ pc = "idle"
    /\ caller' = "direct"
    /\ pc' = "nc"
    /\ UNCHANGED << puzzle, words, domains, calls, queue, seed, ac3Result,
                    assignment, stack, results, returned >>

\* the body of enforce_node_consistency
EnforceNodeConsistency ==
    /\ pc = "nc"
    /\ domains' = enforce_node_consistency(domains)
    /\ pc' = IF caller = "solve" THEN "ac3_init" ELSE "idle"
    /\ UNCHANGED << puzzle, words, caller, calls, queue, seed, ac3Result,
                    assignment, stack, results, returned >>

\* creator.ac3(arcs) is called on its own, with a list of arcs; revise
\* indexes the words at the overlap offsets, so the store is node consistent
Ac3CallArcs ==
    /\ pc = "idle"
    /\ NodeConsistent(domains)
    /\ \E arcs \in ArcLists(MaxArcs) :
          queue' = arcs
    /\ caller' = "direct"
    /\ seed' = "given"
    /\ ac3Result' = "none"
    /\ pc' = "ac3"
    /\ UNCHANGED << puzzle, words, domains, calls, assignment, stack, results,
                    returned >>

\* creator.ac3() is called on its own, with arcs=None
Ac3CallAll ==
    /\ pc = "idle"
    /\ NodeConsistent(domains)
    /\ queue' = AllArcs
    /\ caller' = "direct"
    /\ seed' = "all"
    /\ ac3Result' = "none"
    /\ pc' = "ac3"
    /\ UNCHANGED << puzzle, words, domains, calls, assignment, stack, results,
                    returned >>

\* solve's call self.ac3(): arcs=None, the worklist starts with all arcs
Ac3Init ==
    /\ pc = "ac3_init"
    /\ queue' = AllArcs
    /\ seed' = "all"
    /\ ac3Result' = "none"
    /\ pc' = "ac3"
    /\ UNCHANGED << puzzle, words, domains, caller, calls, assignment, stack,
                    results, returned >>

\* control after ac3 returned: solve goes on to backtrack(dict())
AfterAc3 == IF caller = "solve" THEN "bt_enter" ELSE "idle"

\* one iteration of ac3's while loop
Ac3Step ==
    /\ pc = "ac3" /\ queue # << >>
    /\ LET x == Head(queue)[1]
           y == Head(queue)[2]
           rev == revised(domains, x, y)
       IN  /\ domains' = revise(domains, x, y)
           /\ IF rev /\ domains'[x] = {}
              THEN /\ ac3Result' = "False"
                   /\ pc' = AfterAc3
                   /\ queue' = << >>
              ELSE /\ queue' = Tail(queue) \o NewArcs(x, y, rev)
                   /\ UNCHANGED << ac3Result, pc >>
    /\ UNCHANGED << puzzle, words, caller, calls, seed, assignment, stack,
                    results, returned >>

\* the worklist is empty: ac3 returns True
Ac3Return ==
    /\ pc = "ac3" /\ queue = << >>
    /\ ac3Result' = "True"
    /\ pc' = AfterAc3
    /\ UNCHANGED << puzzle, words, domains, caller, calls, queue, seed,
                    assignment, stack, results, returned >>

\* ---------------------------------------------------------- backtrack
Top == stack[Len(stack)]

\* dict without the key var (del assignment[var])
Without(asg, var) == [v \in DOMAIN asg \ {var} |-> asg[v]]

\* a value returned by solve: the assignment, or None
Solution(asg) == [found |-> TRUE, assignment |-> asg]
NoSolution == [found |-> FALSE, assignment |-> NoAssignment]

\* backtrack(assignment) is entered: return the complete assignment, or
\* select a variable and order its values for the loop
BtEnter ==
    /\ pc = "bt_enter"
    /\ IF assignment_complete(assignment)
       THEN /\ pc' = "bt_return"
            /\ UNCHANGED stack
       ELSE LET var == select_unassigned_variable(domains, assignment)
            IN  /\ stack' = Append(stack,
                       [var |-> var,
                        values |-> order_domain_values(domains, var, assignment),
                        tried |-> 0,
                        saved |-> domains,
                        entry |-> assignment])
                /\ pc' = "bt_loop"
    /\ UNCHANGED << puzzle, words, domains, caller, calls, queue, seed,
                    ac3Result, assignment, results, returned >>

\* (variant: the tried value also narrows the variable's domain)
BtAssignNarrowing ==
    /\ pc = "bt_loop" /\ Top.tried < Len(Top.values)
    /\ assignment' = (Top.var :> Top.values[Top.tried + 1]) @@ assignment
    /\ stack' = [stack EXCEPT ![Len(stack)].tried = @ + 1,
                              ![Len(stack)].saved = domains]
    /\ domains' = [domains EXCEPT ![Top.var] = { Top.values[Top.tried + 1] }]
    /\ pc' = "bt_check"
    /\ UNCHANGED << puzzle, words, caller, calls, queue, seed, ac3Result,
                    results, returned >>

\* the loop takes the next value: assignment[var] = value
BtAssign ==
    /\ pc = "bt_loop" /\ Top.tried < Len(Top.values)
    /\ assignment' = (Top.var :> Top.values[Top.tried + 1]) @@ assignment
    /\ stack' = [stack EXCEPT ![Len(stack)].tried = @ + 1,
                              ![Len(stack)].saved = domains]
    /\ pc' = "bt_check"
    /\ UNCHANGED << puzzle, words, domains, caller, calls, queue, seed,
                    ac3Result, results, returned >>

\* if self.consistent(assignment): recurse, else fall through to the del
BtCheck ==
    /\ pc = "bt_check"
    /\ pc' = IF consistent(assignment) THEN "bt_enter" ELSE "bt_del"
    /\ UNCHANGED << puzzle, words, domains, caller, calls, queue, seed,
                    ac3Result, assignment, stack, results, returned >>

\* (variant: the tentative entry is left in the dict)
BtDelKeeping ==
    /\ pc = "bt_del"
    /\ assignment' = assignment
    /\ pc' = "bt_loop"
    /\ UNCHANGED << puzzle, words, domains, caller, calls, queue, seed,
                    ac3Result, stack, results, returned >>

\* del assignment[var], after a rejected value or a failed recursive call
BtDel ==
    /\ pc = "bt_del"
    /\ assignment' = Without(assignment, Top.var)
    /\ pc' = "bt_loop"
    /\ UNCHANGED << puzzle, words, domains, caller, calls, queue, seed,
                    ac3Result, stack, results, returned >>

\* the loop is over: return None, to the calling frame or to solve
BtFail ==
    /\ pc = "bt_loop" /\ Top.tried = Len(Top.values)
    /\ stack' = SubSeq(stack, 1, Len(stack) - 1)
    /\ IF Len(stack) = 1
       THEN /\ results' = Append(results, NoSolution)
            /\ assignment' = NoAssignment
            /\ pc' = "idle"
       ELSE /\ pc' = "bt_del"
            /\ UNCHANGED << results, assignment >>
    /\ UNCHANGED << puzzle, words, domains, caller, calls, queue, seed,
                    ac3Result, returned >>

\* a call returned the assignment: the calling frame returns it too, and
\* solve returns it to the driver
BtReturn ==
    /\ pc = "bt_return"
    /\ IF stack = << >>
       THEN /\ results' = Append(results, Solution(assignment))
            /\ assignment' = NoAssignment
            /\ pc' = "idle"
            /\ UNCHANGED stack
       ELSE /\ stack' = SubSeq(stack, 1, Len(stack) - 1)
            /\ UNCHANGED << results, assignment, pc >>
    /\ UNCHANGED << puzzle, words, domains, caller, calls, queue, seed,
                    ac3Result, returned >>

\* main(): the engine is built and solve is called on it
Next ==
    \/ SolveCall
    \/ EnforceNodeConsistency
    \/ Ac3Init
    \/ Ac3Step
    \/ Ac3Return
    \/ BtEnter
    \/ BtAssign
    \/ BtCheck
    \/ BtDel
    \/ BtFail
    \/ BtReturn

Spec == Init /\ [][Next]_vars

\* a caller that runs the propagation methods of the engine on their own
NextPropagation ==
    \/ NodeConsistencyCall
    \/ EnforceNodeConsistency
    \/ Ac3CallArcs
    \/ Ac3CallAll
    \/ Ac3Step
    \/ Ac3Return

\* ac3 runs synchronously: its loop keeps iterating until it returns
PropagationSpec ==
    Init /\ [][NextPropagation]_vars /\ WF_vars(Ac3Step \/ Ac3Return)

\* ------------------------------------------- direct calls of the methods
\* the assignments a caller may pass: any words of the list for any of the
\* variables
Assignments == UNION { [V -> words] : V \in SUBSET Variables }

\* the engine right after construction, with the dict a caller holds
InitDirect ==
    /\ puzzle \in Puzzles
    /\ words \in { { WordPool[k] : k \in ks } :
                      ks \in { S \in SUBSET (1..Len(WordPool)) :
                                 S # {} /\ Cardinality(S) <= MaxWords } }
    /\ domains = [var \in Variables |-> words]
    /\ pc = "idle"
    /\ caller = "direct"
    /\ calls = 0
    /\ queue = << >>
    /\ seed = "all"
    /\ ac3Result = "none"
    /\ assignment \in Assignments
    /\ stack = << >>
    /\ results = << >>
    /\ returned = << >>

\* creator.consistent(assignment) is called on its own, once
ConsistentCall ==
    /\ pc = "idle" /\ returned = << >>
    /\ returned' = << "consistent",
                      IF consistent(assignment) THEN "True" ELSE "False" >>
    /\ UNCHANGED << puzzle, words, domains, pc, caller, calls, queue, seed,
                    ac3Result, assignment, stack, results >>

\* creator.order_domain_values(var, assignment) is called on its own, once,
\* for a variable outside the assignment as backtrack does; it indexes the
\* words at the overlap offsets, so the store is node consistent
OrderCall ==
    /\ pc = "idle" /\ returned = << >>
    /\ NodeConsistent(domains)
    /\ \E var \in Variables \ DOMAIN assignment :
          returned' = << "order_domain_values", var,
                         order_domain_values(domains, var, assignment) >>
    /\ UNCHANGED << puzzle, words, domains, pc, caller, calls, queue, seed,
                    ac3Result, assignment, stack, results >>

NextDirect ==
    \/ NodeConsistencyCall
    \/ EnforceNodeConsistency
    \/ ConsistentCall
    \/ OrderCall

DirectSpec == InitDirect /\ [][NextDirect]_vars

TypeOK ==
    /\ pc \in { "idle", "nc", "ac3_init", "ac3", "bt_enter", "bt_loop",
                "bt_check", "bt_del", "bt_return" }
    /\ \A v \in Variables : domains[v] \subseteq words
    /\ calls \in 0..MaxSolves

\* ---------------------------------------------------------------- claims
SearchPcs == { "bt_enter", "bt_loop", "bt_check", "bt_del", "bt_return" }

\* a is a complete assignment of words of the word list that is all-distinct,
\* fits every variable's length and agrees at every overlap
ValidAssignment(a) ==
    /\ DOMAIN a = Variables
    /\ \A v \in Variables : a[v] \in words /\ Len(a[v]) = puzzle[v].length
    /\ \A x \in Variables, y \in Variables : x # y => a[x] # a[y]
    /\ \A x \in Variables, y \in Variables :
          (x # y /\ Overlap(puzzle[x], puzzle[y]) # NoOverlap)
             => a[x][Overlap(puzzle[x], puzzle[y])[1] + 1]
                  = a[y][Overlap(puzzle[x], puzzle[y])[2] + 1]

\* two same-length variables without mutual overlap, one word of that length
OneWordForTwo ==
    \E x \in Variables, y \in Variables :
        /\ x # y
        /\ puzzle[x].length = puzzle[y].length
        /\ Overlap(puzzle[x], puzzle[y]) = NoOverlap
        /\ Cardinality({ w \in words : Len(w) = puzzle[x].length }) = 1

\* C1: an assignment returned by solve covers every variable once, its words
\* are pairwise distinct, of the variables' lengths and agree at the
\* overlaps; with one word for two independent same-length variables solve
\* returns no solution.
C1_ReturnedAssignmentValid ==
    \A k \in DOMAIN results :
        /\ results[k].found => ValidAssignment(results[k].assignment)
        /\ OneWordForTwo => ~results[k].found

C1_Witness ==
    /\ Len(puzzle) = 4
    /\ results # << >>
    /\ results[1].found

\* C2: solve returns no solution only if no valid complete assignment of
\* words of the word list exists, and returns one if one exists.
C2_SearchComplete ==
    \A k \in DOMAIN results :
        results[k].found <=> (\E a \in [Variables -> words] : ValidAssignment(a))

C2_Witness ==
    /\ results # << >>
    /\ ~results[1].found
    /\ ac3Result = "True"
    /\ \A v \in Variables : domains[v] # {}
    /\ \E v \in Variables : Cardinality(domains[v]) >= 2

\* C3: no call of backtrack follows a propagation that returned failure.
C3_NoSearchAfterFailedPropagation ==
    ac3Result = "False" => pc \notin SearchPcs

ArcConsistent(doms) ==
    \A x \in Variables, y \in Variables :
        (x # y /\ Overlap(puzzle[x], puzzle[y]) # NoOverlap) =>
            \A wx \in doms[x] : \E wy \in doms[y] :
                wx[Overlap(puzzle[x], puzzle[y])[1] + 1]
                    = wy[Overlap(puzzle[x], puzzle[y])[2] + 1]

\* C4: after ac3 seeded with all arcs returned True, every word left in a
\* domain has a supporting word in the domain of every overlapping variable.
C4_ArcConsistentAfterAc3 ==
    (seed = "all" /\ ac3Result = "True") => ArcConsistent(domains)

C4_Witness ==
    /\ seed = "all" /\ ac3Result = "True"
    /\ Len(puzzle) >= 3
    /\ \A v \in Variables : domains[v] # {}
    /\ \E v \in Variables :
          domains[v] # { w \in words : Len(w) = puzzle[v].length }

\* C5: ac3 returns True exactly when no domain is empty at its return.
C5_ResultReflectsEmptiness ==
    ac3Result # "none" =>
        (ac3Result = "True" <=> \A v \in Variables : domains[v] # {})

\* C6: enforce_node_consistency leaves in every domain exactly the words of
\* the previous domain that have the variable's length.
C6_NodeConsistencyExact ==
    [][pc = "nc" =>
          \A v \in Variables :
              domains'[v] = { w \in domains[v] : Len(w) = puzzle[v].length }]_vars

C6_Witness ==
    /\ pc = "ac3_init"
    /\ \E v \in Variables : domains[v] # words /\ domains[v] # {}

\* some variable's length is the length of no word of the word list
Unmatched(v) == \A w \in words : Len(w) # puzzle[v].length

\* C7: with a variable whose length matches no word, node consistency
\* empties its domain and solve returns no solution from the first frame of
\* the search, which never assigns a word.
C7_UnmatchedLengthNoSolution ==
    \A v \in Variables : Unmatched(v) =>
        /\ (calls > 0 /\ pc # "nc") => domains[v] = {}
        /\ pc \notin { "bt_check", "bt_del", "bt_return" }
        /\ assignment = NoAssignment
        /\ Len(stack) <= 1
        /\ \A k \in DOMAIN results : ~results[k].found

C7_Witness ==
    /\ \E v \in Variables : Unmatched(v)
    /\ \E v \in Variables : domains[v] # {}
    /\ caller = "solve" /\ pc = "idle"
    /\ results # << >>

\* C8: when a branch of the search fails and backtracks, every domain is
\* what it was before the candidate was tried.
C8_DomainsRestored ==
    /\ pc = "bt_del" => domains = Top.saved
    /\ (pc = "bt_loop" /\ Top.tried > 0) => domains = Top.saved

C8_Witness ==
    /\ pc = "bt_del"
    /\ Len(stack) >= 2
    /\ consistent(assignment)

\* C9: every call of solve on the same engine returns the same result.
C9_SolveIdempotent ==
    \A i \in DOMAIN results, j \in DOMAIN results : results[i] = results[j]

C9_Witness ==
    /\ Len(results) = 2
    /\ results[2].found
    /\ \E v \in Variables : Cardinality(domains[v]) >= 2

SumDomains(doms) ==
    LET sizes == [v \in Variables |-> Cardinality(doms[v])]
        sum[n \in 0..Len(puzzle)] == IF n = 0 THEN 0 ELSE sum[n - 1] + sizes[n]
    IN  sum[Len(puzzle)]

\* C10: every step of ac3's loop removes a word from a domain or shrinks the
\* worklist without adding to it, and the loop always stops: however often
\* ac3 is called, control is outside the loop again and again.
C10_Ac3Terminates ==
    /\ [][pc = "ac3" =>
             \/ SumDomains(domains') < SumDomains(domains)
             \/ domains' = domains /\ Len(queue') = Len(queue) - 1
             \/ queue = << >> /\ pc' # "ac3"]_vars
    /\ []<>(pc # "ac3")

C10_Witness ==
    /\ pc # "ac3" /\ ac3Result = "True"
    /\ Len(puzzle) >= 3
    /\ seed = "given"
    /\ \E v \in Variables :
          domains[v] # { w \in words : Len(w) = puzzle[v].length }

\* the arc ac3 is about to pop and revise
RevisedX == Head(queue)[1]
RevisedY == Head(queue)[2]

\* the words of doms[x] with a word of doms[y] agreeing at the overlap of
\* x and y (every word, when they do not overlap)
Supported(doms, x, y) ==
    { wx \in doms[x] :
        Overlap(puzzle[x], puzzle[y]) # NoOverlap =>
            \E wy \in doms[y] :
                wx[Overlap(puzzle[x], puzzle[y])[1] + 1]
                    = wy[Overlap(puzzle[x], puzzle[y])[2] + 1] }

\* C11: revise(x, y) leaves in x's domain exactly the words supported by a
\* word of y's domain, returns True exactly when x's domain changed, leaves
\* every other domain unchanged, and without an overlap changes nothing and
\* returns False.
C11_ReviseExact ==
    [][(pc = "ac3" /\ queue # << >>) =>
          /\ domains'[RevisedX] = Supported(domains, RevisedX, RevisedY)
          /\ revised(domains, RevisedX, RevisedY)
                <=> domains'[RevisedX] # domains[RevisedX]
          /\ \A v \in Variables \ {RevisedX} : domains'[v] = domains[v]
          /\ Overlap(puzzle[RevisedX], puzzle[RevisedY]) = NoOverlap =>
                /\ domains' = domains
                /\ ~revised(domains, RevisedX, RevisedY)]_vars

C11_Witness ==
    /\ pc = "ac3" /\ seed = "given"
    /\ \E v \in Variables :
          /\ domains[v] # {}
          /\ domains[v] # { w \in words : Len(w) = puzzle[v].length }

\* the arcs (k, x) of the neighbors k of x other than y
NeighborArcs(x, y) ==
    { << k, x >> : k \in { v \in Variables \ {x, y} :
                              Overlap(puzzle[v], puzzle[x]) # NoOverlap } }

\* C12: when ac3 pops (x, y) and revise shrinks x's domain without emptying
\* it, the worklist becomes its tail followed by exactly the arcs (k, x) of
\* the neighbors k of x other than y, each once; when revise changes
\* nothing the worklist becomes its tail.
C12_WorklistProtocol ==
    [][(pc = "ac3" /\ queue # << >>) =>
          /\ (domains'[RevisedX] # domains[RevisedX]
                    /\ domains'[RevisedX] # {}) =>
                /\ pc' = "ac3"
                /\ Len(queue') = Len(queue) - 1
                        + Cardinality(NeighborArcs(RevisedX, RevisedY))
                /\ SubSeq(queue', 1, Len(queue) - 1) = Tail(queue)
                /\ { queue'[n] : n \in Len(queue)..Len(queue') }
                        = NeighborArcs(RevisedX, RevisedY)
          /\ domains' = domains =>
                /\ pc' = "ac3"
                /\ queue' = Tail(queue)]_vars

C12_Witness ==
    /\ pc = "ac3" /\ queue # << >>
    /\ \A v \in Variables : domains[v] # {}
    /\ LET x == queue[Len(queue)][2]
       IN  /\ domains[x] # { w \in words : Len(w) = puzzle[x].length }
           /\ queue[Len(queue)] \in NeighborArcs(x, x)
    /\ seed = "given" /\ Len(queue) = 1

\* the number of variables with a defined overlap with v
Degree(v) ==
    Cardinality({ o \in Variables \ {v} :
                    Overlap(puzzle[v], puzzle[o]) # NoOverlap })

\* C13: on an incomplete assignment select_unassigned_variable returns an
\* unassigned variable; no unassigned variable has strictly fewer words
\* left, and none with as few words left has strictly more neighbors.
C13_SelectMinRemainingMaxDegree ==
    [][(pc = "bt_enter" /\ DOMAIN assignment # Variables) =>
          LET var == stack'[Len(stack')].var
          IN  /\ Len(stack') = Len(stack) + 1
              /\ var \in Variables \ DOMAIN assignment
              /\ \A o \in Variables \ DOMAIN assignment :
                    /\ Cardinality(domains[o]) >= Cardinality(domains[var])
                    /\ Cardinality(domains[o]) = Cardinality(domains[var])
                          => Degree(o) <= Degree(var)]_vars

C13_Witness ==
    /\ pc = "bt_loop" /\ Len(stack) = 1 /\ Top.tried = 0
    /\ \E o \in Variables :
          /\ o < Top.var
          /\ Cardinality(domains[o]) = Cardinality(domains[Top.var])
          /\ Degree(o) < Degree(Top.var)

\* the number of (neighbor, neighbor word) pairs, over the neighbors of var
\* outside asg, whose word disagrees with word at the overlap offsets
Eliminated(var, asg, word) ==
    Cardinality(
        { p \in (Variables \ ({var} \cup DOMAIN asg)) \X words :
            /\ Overlap(puzzle[var], puzzle[p[1]]) # NoOverlap
            /\ p[2] \in domains[p[1]]
            /\ word[Overlap(puzzle[var], puzzle[p[1]])[1] + 1]
                  # p[2][Overlap(puzzle[var], puzzle[p[1]])[2] + 1] })

\* C14: order_domain_values(var, assignment) returns every word of var's
\* domain exactly once, in non-decreasing order of the number of words it
\* rules out in the domains of var's unassigned neighbors; assigned
\* neighbors are not counted.
C14_OrderByEliminationCount ==
    (Len(returned) = 3 /\ returned[1] = "order_domain_values") =>
        LET var == returned[2]
            values == returned[3]
        IN  /\ { values[n] : n \in 1..Len(values) } = domains[var]
            /\ Len(values) = Cardinality(domains[var])
            /\ \A n \in 1..(Len(values) - 1) :
                  Eliminated(var, assignment, values[n])
                      <= Eliminated(var, assignment, values[n + 1])

\* with an assigned neighbor counted too, an earlier value would not rule
\* out fewer words than a later one
C14_Witness ==
    /\ Len(returned) = 3 /\ returned[1] = "order_domain_values"
    /\ \E k \in DOMAIN assignment :
          Overlap(puzzle[returned[2]], puzzle[k]) # NoOverlap
    /\ \E m \in 1..Len(returned[3]), n \in 1..Len(returned[3]) :
          /\ m < n
          /\ Eliminated(returned[2], assignment, returned[3][m])
                < Eliminated(returned[2], assignment, returned[3][n])
          /\ Eliminated(returned[2], NoAssignment, returned[3][m])
                >= Eliminated(returned[2], NoAssignment, returned[3][n])

\* some two assigned variables hold the same word
SharedWord(a) ==
    \E x \in DOMAIN a, y \in DOMAIN a : x # y /\ a[x] = a[y]

\* some assigned word is not as long as its variable
WrongLength(a) ==
    \E x \in DOMAIN a : Len(a[x]) # puzzle[x].length

\* some two assigned variables disagree at their overlap
OverlapConflict(a) ==
    \E x \in DOMAIN a, y \in DOMAIN a :
        /\ x # y
        /\ Overlap(puzzle[x], puzzle[y]) # NoOverlap
        /\ a[x][Overlap(puzzle[x], puzzle[y])[1] + 1]
              # a[y][Overlap(puzzle[x], puzzle[y])[2] + 1]

\* C15: consistent(assignment) returns True exactly when no two assigned
\* variables share a word, every assigned word has its variable's length
\* and no two overlapping assigned variables disagree at their overlap;
\* the empty assignment is consistent.
C15_ConsistentExact ==
    (Len(returned) = 2 /\ returned[1] = "consistent") =>
        /\ returned[2] = "True" <=>
              ~(\/ SharedWord(assignment)
                \/ WrongLength(assignment)
                \/ (~WrongLength(assignment) /\ OverlapConflict(assignment)))
        /\ assignment = NoAssignment => returned[2] = "True"

C15_Witness ==
    /\ Len(returned) = 2 /\ returned[1] = "consistent"
    /\ returned[2] = "False"
    /\ ~SharedWord(assignment)
    /\ WrongLength(assignment)
    /\ DOMAIN assignment # Variables

\* C16: when a call of backtrack returns failure the assignment holds
\* exactly the entries it held when that call was entered; once a call has
\* returned success no further value is tried, and the assignment reaches
\* solve's caller unchanged through every calling frame.
C16_AssignmentRestored ==
    /\ [][(pc = "bt_loop" /\ Top.tried = Len(Top.values)) =>
             /\ assignment = Top.entry
             /\ Len(stack') = Len(stack) - 1
             /\ Len(stack) > 1 => assignment' = assignment]_vars
    /\ [][pc = "bt_return" =>
             IF stack = << >>
             THEN /\ pc' = "idle"
                  /\ results' = Append(results, [found |-> TRUE,
                                                 assignment |-> assignment])
             ELSE /\ pc' = "bt_return"
                  /\ Len(stack') = Len(stack) - 1
                  /\ assignment' = assignment]_vars

\* a nested call is about to return failure after its own values, and calls
\* made for them, were tried
C16_Witness ==
    /\ pc = "bt_loop" /\ Len(stack) >= 2
    /\ Top.tried = Len(Top.values) /\ Top.tried >= 2
    /\ DOMAIN assignment # {}
    /\ Cardinality(DOMAIN assignment) < Len(puzzle) - 1

\* the complete assignments of words of the right length that satisfy
\* every overlap constraint
OverlapSolutions ==
    { a \in [Variables -> words] :
        /\ \A v \in Variables : Len(a[v]) = puzzle[v].length
        /\ \A x \in Variables, y \in Variables :
              (x # y /\ Overlap(puzzle[x], puzzle[y]) # NoOverlap) =>
                 a[x][Overlap(puzzle[x], puzzle[y])[1] + 1]
                    = a[y][Overlap(puzzle[x], puzzle[y])[2] + 1] }

\* C17: while and after ac3 runs on node-consistent domains, every word of
\* every complete assignment that satisfies all the overlap constraints is
\* still in its variable's domain, and no step of revise or ac3 adds a word
\* to a domain.
C17_PropagationSound ==
    /\ \A a \in OverlapSolutions : \A v \in Variables : a[v] \in domains[v]
    /\ [][domains' # domains =>
             /\ \A v \in Variables : domains'[v] \subseteq domains[v]
             /\ \A a \in OverlapSolutions :
                   \A v \in Variables : a[v] \in domains'[v]]_vars

\* ac3 has removed a word while a solution exists
C17_Witness ==
    /\ pc = "ac3"
    /\ OverlapSolutions # {}
    /\ Len(puzzle) >= 3
    /\ \E v \in Variables :
          domains[v] # { w \in words : Len(w) = puzzle[v].length }

====
